---- MODULE Spec2Model ----
(***************************************************************************)
(* rekordboxFLAC2MP3.py: mirror playlists, the pass over the collection,   *)
(* the conversion loop and the final write, as a state machine.            *)
(***************************************************************************)
EXTENDS Integers, Sequences, FiniteSets, TLC

VARIABLES
    pc,            \* position of main(): "mirrors", "begin", "tracks", "convert", "write", "done", "crashed"
    playlists,     \* root[2][0]: the sequence of playlist NODEs, each with its TRACK keys
    collection,    \* root[1]: the sequence of TRACK elements
    entries,       \* the Entries attribute of the collection
    mi,            \* index of the for loop over origPlaylistNames (line 107)
    ti,            \* index of the for loop over collection (line 142)
    currId,        \* line 140
    flacToMp3,     \* line 137: insertion-ordered dict, as a sequence of [src, dst]
    ji,            \* index of the for loop over flacToMp3 (line 211)
    invoked,       \* the transcoder invocations made so far, with their exit status
    written,       \* <<>> or <<document>>: what xmlTree.write has written
    disk,          \* the paths for which os.path.isfile is true
    dry_run,       \* args.dry_run
    input,         \* the document as parsed (line 86), kept for comparison
    clones         \* for every track appended at line 197: the index it was copied from and its id

vars == <<pc, playlists, collection, entries, mi, ti, currId, flacToMp3, ji,
          invoked, written, disk, dry_run, input, clones>>

-----------------------------------------------------------------------------
(* Bounds of the input documents: the tracks, and the tracks, playlists and
   playlist entries together *)
MaxTracks == 2
MaxSize == 5

-----------------------------------------------------------------------------
(* Strings *)
LOCALHOST_PREFIX == "file://localhost/"
MP3_SUFFIX == "_MP3"

startswith(s, p) == Len(s) >= Len(p) /\ SubSeq(s, 1, Len(p)) = p
endswith(s, p) == Len(s) >= Len(p) /\ SubSeq(s, Len(s) - Len(p) + 1, Len(s)) = p
Tail_(s, i) == SubSeq(s, i, Len(s))

RECURSIVE replace(_, _, _)
replace(s, old, new) ==
    IF Len(s) < Len(old) THEN s
    ELSE IF SubSeq(s, 1, Len(old)) = old
         THEN new \o replace(Tail_(s, Len(old) + 1), old, new)
         ELSE SubSeq(s, 1, 1) \o replace(Tail_(s, 2), old, new)

Upper == <<"A","B","C","D","E","F","G","H","I","J","K","L","M",
           "N","O","P","Q","R","S","T","U","V","W","X","Y","Z">>
Lower == <<"a","b","c","d","e","f","g","h","i","j","k","l","m",
           "n","o","p","q","r","s","t","u","v","w","x","y","z">>
lowerChar(c) ==
    IF \E i \in 1..26 : Upper[i] = c
    THEN Lower[CHOOSE i \in 1..26 : Upper[i] = c]
    ELSE c
RECURSIVE lower(_)
lower(s) == IF Len(s) = 0 THEN s ELSE lowerChar(SubSeq(s, 1, 1)) \o lower(Tail_(s, 2))

\* str.rfind, 1-based; 0 when absent
rfind(s, c) ==
    LET I == {i \in 1..Len(s) : SubSeq(s, i, i) = c}
    IN IF I = {} THEN 0 ELSE CHOOSE i \in I : \A j \in I : j <= i
Max(a, b) == IF a >= b THEN a ELSE b

\* os.path.splitext on win32 (ntpath): [root, ext]
splitext(p) ==
    LET sepIndex == Max(rfind(p, "\\"), rfind(p, "/"))
        dotIndex == rfind(p, ".")
    IN IF dotIndex > sepIndex
          /\ \E k \in (sepIndex + 1)..(dotIndex - 1) : SubSeq(p, k, k) # "."
       THEN [root |-> SubSeq(p, 1, dotIndex - 1), ext |-> Tail_(p, dotIndex)]
       ELSE [root |-> p, ext |-> ""]

unescape_from_xml(s) == replace(replace(replace(s, "%20", " "), "%26", "&"), "%27", "'")
escape_for_xml(s) == replace(replace(replace(s, " ", "%20"), "&", "%26"), ",", "%27")

-----------------------------------------------------------------------------
(* The document *)
FLAC_EXT == ".flac"
MP3_EXT == ".mp3"
MP3_KIND == "MP3 File"
MP3_BITRATE == 320

isFlac(rawPath) == lower(splitext(rawPath).ext) = FLAC_EXT

\* lines 150-153: the path as the file system knows it
decodePath(rawPath) ==
    LET flacPath == unescape_from_xml(rawPath)
    IN IF startswith(flacPath, LOCALHOST_PREFIX)
       THEN Tail_(flacPath, Len(LOCALHOST_PREFIX) + 1)
       ELSE flacPath

\* line 155 without the test of the file system
isfile_always(d, path) == TRUE
isfile(d, path) == path \in d

\* line 186 without the change of extension
mp3PathOf_sameExt(flacPath) == flacPath
mp3PathOf(flacPath) == splitext(flacPath).root \o MP3_EXT

Document == [collection |-> collection, entries |-> entries, playlists |-> playlists]

Names(pls) == [k \in 1..Len(pls) |-> pls[k].Name]
origPlaylistNames == Names(input.playlists)

\* Element.find("*/[@Name='...']"): the first child of that name, 0 for None
findByName(pls, name) ==
    LET K == {k \in 1..Len(pls) : pls[k].Name = name}
    IN IF K = {} THEN 0 ELSE CHOOSE k \in K : \A j \in K : k <= j

\* pl.findall("*/[@Key='...']") is not empty
hasKey(pl, id) == \E e \in 1..Len(pl.tracks) : pl.tracks[e] = id

\* lines 107-127 without the test of line 115
MirrorIter_noReuse(pls, names, i) ==
    LET pname == names[i]
        mp3name == pname \o MP3_SUFFIX
    IN IF endswith(pname, MP3_SUFFIX) THEN pls
       ELSE LET origPL == pls[findByName(pls, pname)]
            IN Append(pls, [Name |-> mp3name, Entries |-> origPL.Entries,
                            Key |-> origPL.Key, Type |-> origPL.Type,
                            tracks |-> <<>>])

\* one iteration of the loop of lines 107-127
MirrorIter(pls, names, i) ==
    LET pname == names[i]
        mp3name == pname \o MP3_SUFFIX
    IN IF endswith(pname, MP3_SUFFIX) THEN pls
       ELSE IF \E k \in 1..Len(names) : names[k] = mp3name THEN pls
       ELSE LET origPL == pls[findByName(pls, pname)]
            IN Append(pls, [Name |-> mp3name, Entries |-> origPL.Entries,
                            Key |-> origPL.Key, Type |-> origPL.Type,
                            tracks |-> <<>>])

\* the whole loop of lines 107-127 over the names read at lines 94-102
RECURSIVE MirrorLoop(_, _, _)
MirrorLoop(pls, names, i) ==
    IF i > Len(names) THEN pls
    ELSE MirrorLoop(MirrorIter(pls, names, i), names, i + 1)
MirrorPlaylistBuilder(pls) == MirrorLoop(pls, Names(pls), 1)

\* the loop of lines 164-179 for one track, from playlist k on
RECURSIVE scanPlaylists(_, _, _, _, _)
scanPlaylists(pls, k, origId, newId, inPlaylist) ==
    IF k > Len(pls) THEN [pls |-> pls, inPlaylist |-> inPlaylist, error |-> FALSE]
    ELSE IF ~hasKey(pls[k], origId)
         THEN scanPlaylists(pls, k + 1, origId, newId, inPlaylist)
         ELSE LET m == findByName(pls, pls[k].Name \o MP3_SUFFIX)
              IN IF m = 0
                 THEN [pls |-> pls, inPlaylist |-> TRUE, error |-> TRUE]
                 ELSE scanPlaylists([pls EXCEPT ![m].tracks = Append(@, newId)],
                                    k + 1, origId, newId, TRUE)

\* line 189 on a list of jobs instead of a dict
setJob_append(jobs, src, dst) == Append(jobs, [src |-> src, dst |-> dst])

\* flacToMp3[src] = dst on an insertion-ordered dict
setJob(jobs, src, dst) ==
    IF \E k \in 1..Len(jobs) : jobs[k].src = src
    THEN [k \in 1..Len(jobs) |->
             IF jobs[k].src = src THEN [src |-> src, dst |-> dst] ELSE jobs[k]]
    ELSE Append(jobs, [src |-> src, dst |-> dst])

\* lines 192-196 on a new element instead of a deep copy
cloneTrack_fresh(track, id, location) ==
    [TrackID |-> id, Location |-> location, Kind |-> MP3_KIND, BitRate |-> MP3_BITRATE,
     Name |-> ""]

\* lines 192-196
cloneTrack(track, id, location) ==
    [track EXCEPT !.TrackID = id,
                  !.Location = location,
                  !.Kind = MP3_KIND,
                  !.BitRate = MP3_BITRATE]

-----------------------------------------------------------------------------
(* Input documents *)
LocSet == {"file://localhost/a%20b.flac", "a b.flac", "file://localhost/c.FLAC",
           "file://localhost/d.mp3"}
NameOrder == <<"A", "B", "A_MP3", "A_MP3_MP3">>
IdOffsets == {0, 1}

SeqsUpTo(S, n) == UNION {[1..m -> S] : m \in 0..n}

MkTrack(id, loc) ==
    [TrackID |-> id, Location |-> loc, Name |-> "x",
     Kind |-> IF isFlac(loc) THEN "FLAC File" ELSE MP3_KIND,
     BitRate |-> IF isFlac(loc) THEN 1411 ELSE MP3_BITRATE]
MkPlaylist(name, keys) ==
    [Name |-> name, Entries |-> Len(keys), Key |-> "0", Type |-> "1", tracks |-> keys]

\* the collections of n tracks, their ids pairwise distinct
InputCollections(n, off) ==
    {[k \in 1..n |-> MkTrack(k + off, locs[k])] : locs \in [1..n -> LocSet]}

\* the names of NameOrder at the positions I, in that order: pairwise distinct
NameSeq(I) ==
    [k \in 1..Cardinality(I) |->
        NameOrder[CHOOSE i \in I : Cardinality({j \in I : j < i}) = k - 1]]

\* the playlist sections with the names ns and at most e entries in all
RECURSIVE InputPlaylists(_, _, _)
InputPlaylists(ns, e, ids) ==
    IF Len(ns) = 0 THEN {<<>>}
    ELSE UNION {{<<MkPlaylist(Head(ns), keys)>> \o rest :
                    rest \in InputPlaylists(Tail(ns), e - Len(keys), ids)} :
                keys \in SeqsUpTo(ids, e)}

\* the paths line 155 asks the file system about
PathsOf(c) == {decodePath(c[k].Location) : k \in {j \in 1..Len(c) : isFlac(c[j].Location)}}

Init ==
    /\ \E n \in 1..MaxTracks, off \in IdOffsets, I \in SUBSET (1..Len(NameOrder)) :
          /\ n + Cardinality(I) <= MaxSize
          /\ collection \in InputCollections(n, off)
          /\ playlists \in InputPlaylists(NameSeq(I), MaxSize - n - Cardinality(I),
                                          (1 + off)..(n + off))
    /\ entries \in {Len(collection) - 1, Len(collection)}
    /\ disk \in SUBSET PathsOf(collection)
    /\ dry_run \in BOOLEAN
    /\ input = [collection |-> collection, entries |-> entries, playlists |-> playlists]
    /\ pc = "mirrors"
    /\ mi = 1
    /\ ti = 1
    /\ currId = 0
    /\ flacToMp3 = <<>>
    /\ ji = 1
    /\ invoked = <<>>
    /\ written = <<>>
    /\ clones = <<>>

-----------------------------------------------------------------------------
(* main() *)

\* lines 107-127, one name
MirrorStep ==
    /\ pc = "mirrors"
    /\ mi <= Len(origPlaylistNames)
    /\ playlists' = MirrorIter(playlists, origPlaylistNames, mi)
    /\ mi' = mi + 1
    /\ UNCHANGED <<pc, collection, entries, ti, currId, flacToMp3, ji, invoked,
                   written, disk, dry_run, input, clones>>

\* lines 129-140
BeginPass ==
    /\ pc = "mirrors"
    /\ mi > Len(origPlaylistNames)
    /\ flacToMp3' = <<>>
    /\ currId' = entries + 1
    /\ ti' = 1
    /\ pc' = "tracks"
    /\ UNCHANGED <<playlists, collection, entries, mi, ji, invoked, written,
                   disk, dry_run, input, clones>>

\* line 194
newLocation(mp3Path) == LOCALHOST_PREFIX \o escape_for_xml(mp3Path)

\* The values of Location, the input's and those line 194 makes of them, and
\* lines 146, 150-153, 186 and 194 tabulated over them.
Locations ==
    LET made(L) == {newLocation(mp3PathOf(decodePath(l))) : l \in L}
    IN LocSet \cup made(LocSet) \cup made(made(LocSet))
Paths == {decodePath(l) : l \in Locations}
isFlacAt == [l \in Locations |-> isFlac(l)]
flacPathAt == [l \in Locations |-> decodePath(l)]
mp3PathAt == [path \in Paths |-> mp3PathOf(path)]
newLocationAt == [mp3Path \in {mp3PathOf(path) : path \in Paths} |-> newLocation(mp3Path)]

track == collection[ti]
rawPath == track.Location
flacPath == flacPathAt[rawPath]
mp3Path == mp3PathAt[flacPath]
scan == scanPlaylists(playlists, 1, track.TrackID, currId, FALSE)
InLoop == pc = "tracks" /\ ti <= Len(collection)

\* lines 143-147
SkipNotFlac ==
    /\ InLoop
    /\ ~isFlacAt[rawPath]
    /\ ti' = ti + 1
    /\ UNCHANGED <<pc, playlists, collection, entries, mi, currId, flacToMp3, ji,
                   invoked, written, disk, dry_run, input, clones>>

\* lines 149-157
SkipMissing ==
    /\ InLoop
    /\ isFlacAt[rawPath]
    /\ ~isfile(disk, flacPath)
    /\ ti' = ti + 1
    /\ UNCHANGED <<pc, playlists, collection, entries, mi, currId, flacToMp3, ji,
                   invoked, written, disk, dry_run, input, clones>>

\* lines 159-182, the track is in no playlist
SkipNoPlaylist ==
    /\ InLoop
    /\ isFlacAt[rawPath]
    /\ isfile(disk, flacPath)
    /\ ~scan.error
    /\ ~scan.inPlaylist
    /\ ti' = ti + 1
    /\ UNCHANGED <<pc, playlists, collection, entries, mi, currId, flacToMp3, ji,
                   invoked, written, disk, dry_run, input, clones>>

\* lines 159-200, the track is in a playlist and every mirror was found
ConvertTrack ==
    /\ InLoop
    /\ isFlacAt[rawPath]
    /\ isfile(disk, flacPath)
    /\ ~scan.error
    /\ scan.inPlaylist
    /\ playlists' = scan.pls
    /\ flacToMp3' = setJob(flacToMp3, flacPath, mp3Path)
    /\ collection' = Append(collection, cloneTrack(track, currId, newLocationAt[mp3Path]))
    /\ clones' = Append(clones, [from |-> ti, id |-> currId])
    /\ currId' = currId + 1
    /\ ti' = ti + 1
    /\ UNCHANGED <<pc, entries, mi, ji, invoked, written, disk, dry_run, input>>

\* lines 177-178: playlists.find returns None and ET.SubElement raises TypeError
NoMirrorError ==
    /\ InLoop
    /\ isFlacAt[rawPath]
    /\ isfile(disk, flacPath)
    /\ scan.error
    /\ playlists' = scan.pls
    /\ pc' = "crashed"
    /\ UNCHANGED <<collection, entries, mi, ti, currId, flacToMp3, ji, invoked,
                   written, disk, dry_run, input, clones>>

\* lines 202-207 with Entries set to currId
FinishPass_offByOne ==
    /\ pc = "tracks"
    /\ ti > Len(collection)
    /\ entries' = currId
    /\ ji' = 1
    /\ pc' = "convert"
    /\ UNCHANGED <<playlists, collection, mi, ti, currId, flacToMp3, invoked,
                   written, disk, dry_run, input, clones>>

\* lines 202-207
FinishPass ==
    /\ pc = "tracks"
    /\ ti > Len(collection)
    /\ entries' = currId - 1
    /\ ji' = 1
    /\ pc' = "convert"
    /\ UNCHANGED <<playlists, collection, mi, ti, currId, flacToMp3, invoked,
                   written, disk, dry_run, input, clones>>

\* lines 210-212 giving up at the first failed conversion
ffmpegFLAC2MP3_stopsOnFailure ==
    /\ pc = "convert"
    /\ ~dry_run
    /\ ji <= Len(flacToMp3)
    /\ \E returncode \in {0, 1} :
          /\ invoked' = Append(invoked, [src |-> flacToMp3[ji].src,
                                         dst |-> flacToMp3[ji].dst,
                                         returncode |-> returncode])
          /\ pc' = IF returncode = 0 THEN pc ELSE "done"
    /\ ji' = ji + 1
    /\ UNCHANGED <<playlists, collection, entries, mi, ti, currId, flacToMp3,
                   written, disk, dry_run, input, clones>>

\* lines 210-212 and 52-70, one job
ffmpegFLAC2MP3 ==
    /\ pc = "convert"
    /\ ~dry_run
    /\ ji <= Len(flacToMp3)
    /\ \E returncode \in {0, 1} :
          invoked' = Append(invoked, [src |-> flacToMp3[ji].src,
                                      dst |-> flacToMp3[ji].dst,
                                      returncode |-> returncode])
    /\ ji' = ji + 1
    /\ UNCHANGED <<pc, playlists, collection, entries, mi, ti, currId, flacToMp3,
                   written, disk, dry_run, input, clones>>

\* lines 214-216
WriteXml ==
    /\ pc = "convert"
    /\ ~dry_run
    /\ ji > Len(flacToMp3)
    /\ written' = <<Document>>
    /\ pc' = "done"
    /\ UNCHANGED <<playlists, collection, entries, mi, ti, currId, flacToMp3, ji,
                   invoked, disk, dry_run, input, clones>>

\* lines 210 and 214 with --dry-run
DryRunEnd ==
    /\ pc = "convert"
    /\ dry_run
    /\ pc' = "done"
    /\ UNCHANGED <<playlists, collection, entries, mi, ti, currId, flacToMp3, ji,
                   invoked, written, disk, dry_run, input, clones>>

Next ==
    \/ MirrorStep
    \/ BeginPass
    \/ SkipNotFlac
    \/ SkipMissing
    \/ SkipNoPlaylist
    \/ ConvertTrack
    \/ NoMirrorError
    \/ FinishPass
    \/ ffmpegFLAC2MP3
    \/ WriteXml
    \/ DryRunEnd

Spec == Init /\ [][Next]_vars
FairSpec == Spec /\ WF_vars(Next)

-----------------------------------------------------------------------------
(* Vocabulary of the properties *)
InputLen == Len(input.collection)
PassDone == pc \in {"convert", "done"}
IsMirrorName(name) == endswith(name, MP3_SUFFIX)
Count(f, x) == Cardinality({i \in 1..Len(f) : f[i] = x})
TracksNamed(pls, name) ==
    IF findByName(pls, name) = 0 THEN <<>> ELSE pls[findByName(pls, name)].tracks
\* how many entries with this key the playlist of this name has gained
Gained(name, key) ==
    Count(TracksNamed(playlists, name), key) - Count(TracksNamed(input.playlists, name), key)
\* input track k is of the source format and its file exists
Present(k) ==
    /\ isFlacAt[input.collection[k].Location]
    /\ flacPathAt[input.collection[k].Location] \in disk
Missing(k) ==
    /\ isFlacAt[input.collection[k].Location]
    /\ flacPathAt[input.collection[k].Location] \notin disk
\* the input playlists that reference input track k
Refs(k) ==
    {p \in 1..Len(input.playlists) : hasKey(input.playlists[p], input.collection[k].TrackID)}
NonMirrorRefs(k) == {p \in Refs(k) : ~IsMirrorName(input.playlists[p].Name)}
ClonesOf(k) == {j \in 1..Len(clones) : clones[j].from = k}
IsPrefix(f, g) == Len(f) <= Len(g) /\ \A i \in 1..Len(f) : f[i] = g[i]

-----------------------------------------------------------------------------
\* C1: after the pass, for every input track t of the source format that is on
\* disk and for every non-mirror playlist P that references it, the playlist
\* named P.name + "_MP3" has gained exactly one entry whose key is the id of
\* the track cloned from t, and the mirror of a playlist that did not
\* reference t has gained no entry with that key.
C1_MembershipConsistency ==
    PassDone =>
        \A k \in 1..InputLen : \A p \in NonMirrorRefs(k) :
            Present(k) =>
                /\ Cardinality(ClonesOf(k)) = 1
                /\ \A j \in ClonesOf(k) :
                      /\ Gained(input.playlists[p].Name \o MP3_SUFFIX, clones[j].id) = 1
                      /\ \A q \in 1..Len(playlists) :
                            q \notin Refs(k) =>
                                Gained(playlists[q].Name \o MP3_SUFFIX, clones[j].id) = 0

\* C2: an input track of the source format that is on disk and is referenced
\* by no playlist, or only by playlists whose name ends with "_MP3", is
\* skipped: it is never cloned, and the pass does not stop at it.
C2_OnlyNonMirrorMembership ==
    \A k \in 1..InputLen :
        (Present(k) /\ NonMirrorRefs(k) = {}) =>
            /\ ClonesOf(k) = {}
            /\ ~(pc = "crashed" /\ ti = k)

\* C3: after the pass the ids of the tracks of the collection are pairwise
\* distinct: the new ids count up from the input Entries + 1 and none of them
\* is the id of an input track.
C3_IdsUnique ==
    PassDone =>
        /\ \A j \in 1..Len(clones) : clones[j].id = input.entries + j
        /\ \A i, j \in 1..Len(collection) :
              i # j => collection[i].TrackID # collection[j].TrackID

-----------------------------------------------------------------------------
\* the playlists added to the section, and the input playlists that are no
\* mirror and have none
Added == {k \in 1..Len(playlists) : k > Len(input.playlists)}
NeedsMirror ==
    {p \in 1..Len(input.playlists) :
        /\ ~IsMirrorName(input.playlists[p].Name)
        /\ findByName(input.playlists, input.playlists[p].Name \o MP3_SUFFIX) = 0}

\* C4: once the mirror playlists are built, the names are still pairwise
\* distinct, every playlist whose name does not end with "_MP3" has exactly one
\* playlist named name + "_MP3", a playlist was added only for an input
\* playlist that is no mirror and had no mirror, and building the mirrors
\* again adds nothing.
C4_MirrorsExactIdempotent ==
    pc # "mirrors" =>
        /\ \A k \in 1..Len(playlists) :
              ~IsMirrorName(playlists[k].Name) =>
                  Cardinality({m \in 1..Len(playlists) :
                      playlists[m].Name = playlists[k].Name \o MP3_SUFFIX}) = 1
        /\ \A i, j \in 1..Len(playlists) : i # j => playlists[i].Name # playlists[j].Name
        /\ Cardinality(Added) = Cardinality(NeedsMirror)
        /\ \A k \in Added : \E p \in NeedsMirror :
              playlists[k].Name = input.playlists[p].Name \o MP3_SUFFIX
        /\ MirrorPlaylistBuilder(playlists) = playlists
\* the mirrors were built for a section with a playlist that had its mirror and
\* one that had none
C4_Witness ==
    /\ pc = "tracks"
    /\ Added # {}
    /\ \E p \in 1..Len(input.playlists) :
          /\ ~IsMirrorName(input.playlists[p].Name)
          /\ findByName(input.playlists, input.playlists[p].Name \o MP3_SUFFIX) # 0

-----------------------------------------------------------------------------
\* C5: after the pass Entries is the input Entries plus the number of tracks
\* appended, so it is the number of tracks whenever the input Entries was.
C5_EntriesCounter ==
    PassDone =>
        /\ entries = input.entries + (Len(collection) - InputLen)
        /\ input.entries = InputLen => entries = Len(collection)
\* the pass has ended with two tracks appended
C5_Witness == PassDone /\ Len(collection) = InputLen + 2 /\ input.entries = InputLen

-----------------------------------------------------------------------------
AllMissing == \A k \in 1..InputLen : ~Present(k)
C6_State ==
    /\ \A k \in 1..InputLen :
          Missing(k) =>
              /\ ClonesOf(k) = {}
              /\ \A j \in 1..Len(flacToMp3) :
                    flacToMp3[j].src # flacPathAt[input.collection[k].Location]
    /\ AllMissing => pc # "crashed"
    /\ (AllMissing /\ PassDone) =>
          /\ collection = input.collection
          /\ entries = input.entries
          /\ flacToMp3 = <<>>
          /\ IsPrefix(input.playlists, playlists)
          /\ \A k \in Added : playlists[k].tracks = <<>>
C6_Step ==
    (InLoop /\ ti <= InputLen /\ Missing(ti)) =>
        /\ pc' = "tracks"
        /\ ti' = ti + 1
        /\ UNCHANGED <<playlists, collection, currId, flacToMp3, clones>>

\* C6: an input track of the source format whose file is missing is never
\* cloned and never a job; its iteration changes neither the playlists, the
\* collection, the id counter nor the jobs and moves on to the next track; and
\* when no track of the source format has its file, the pass ends with the
\* document as read but for the new, empty mirror playlists.
C6_MissingFileSkip == []C6_State /\ [][C6_Step]_vars
\* a missing track that a playlist references was passed over and the track
\* after it was cloned
C6_Witness ==
    /\ PassDone
    /\ \E k \in 1..InputLen :
          /\ Missing(k)
          /\ NonMirrorRefs(k) # {}
          /\ \E j \in 1..Len(clones) : clones[j].from > k

-----------------------------------------------------------------------------
\* the clones of the tracks whose decoded path is the source of job j
JobClones(j) ==
    {c \in 1..Len(clones) :
        flacPathAt[input.collection[clones[c].from].Location] = flacToMp3[j].src}
C7_State ==
    /\ Len(invoked) <= Len(flacToMp3)
    /\ \A j \in 1..Len(invoked) :
          invoked[j].src = flacToMp3[j].src /\ invoked[j].dst = flacToMp3[j].dst
    /\ \A i, j \in 1..Len(flacToMp3) : i # j => flacToMp3[i].src # flacToMp3[j].src
    /\ invoked # <<>> => PassDone
    /\ dry_run => invoked = <<>> /\ written = <<>>
    /\ (pc = "done" /\ ~dry_run) =>
          /\ Len(invoked) = Len(flacToMp3)
          /\ written = <<Document>>
          /\ \A j \in 1..Len(invoked) :
                /\ JobClones(j) # {}
                /\ \A c \in JobClones(j) :
                      /\ written[1].collection[InputLen + c].TrackID = clones[c].id
                      /\ written[1].collection[InputLen + c].Location =
                            newLocationAt[invoked[j].dst]
                      /\ \A p \in NonMirrorRefs(clones[c].from) :
                            hasKey([tracks |-> TracksNamed(written[1].playlists,
                                        input.playlists[p].Name \o MP3_SUFFIX)],
                                   clones[c].id)
    /\ written # <<>> => pc = "done"
C7_Step == PassDone => UNCHANGED <<playlists, collection, entries, flacToMp3>>

\* C7: the transcoder is invoked for the jobs in the order of the job list,
\* once each, whatever the exit statuses, and only once the pass is over; from
\* then on the document does not change, and it is written after the last job
\* with the clone and the mirror entries of every job, failed or not. With
\* --dry-run there is no invocation and nothing is written.
C7_MutationBeforeConversion == []C7_State /\ [][C7_Step]_vars
\* two jobs were run, the first one failed, and the document was written
C7_Witness ==
    /\ pc = "done"
    /\ Len(invoked) = 2
    /\ invoked[1].returncode # 0
    /\ written # <<>>

-----------------------------------------------------------------------------
Blank(t) == [t EXCEPT !.TrackID = 0, !.Location = "", !.Kind = "", !.BitRate = 0]

\* C8: the input tracks stay, unchanged, the first tracks of the collection;
\* the input playlists keep their place and attributes, and those whose name
\* does not end with "_MP3" keep their entries; a new playlist has the Entries
\* of its source; and a new track differs from the track it was copied from in
\* TrackID, Location, Kind and BitRate only.
C8_Frame ==
    /\ IsPrefix(input.collection, collection)
    /\ Len(input.playlists) <= Len(playlists)
    /\ \A k \in 1..Len(input.playlists) :
          /\ [playlists[k] EXCEPT !.tracks = <<>>] = [input.playlists[k] EXCEPT !.tracks = <<>>]
          /\ IsPrefix(input.playlists[k].tracks, playlists[k].tracks)
          /\ ~IsMirrorName(playlists[k].Name) => playlists[k] = input.playlists[k]
    /\ \A k \in Added :
          /\ IsMirrorName(playlists[k].Name)
          /\ \E p \in NeedsMirror :
                /\ playlists[k].Name = input.playlists[p].Name \o MP3_SUFFIX
                /\ playlists[k].Entries = input.playlists[p].Entries
    /\ Len(collection) = InputLen + Len(clones)
    /\ \A j \in 1..Len(clones) :
          Blank(collection[InputLen + j]) = Blank(collection[clones[j].from])
\* a track was cloned and a mirror playlist of the input has gained its entry
C8_Witness ==
    /\ PassDone
    /\ clones # <<>>
    /\ \E k \in 1..Len(input.playlists) :
          /\ IsMirrorName(playlists[k].Name)
          /\ Len(playlists[k].tracks) > Len(input.playlists[k].tracks)
    /\ \E k \in 1..Len(input.playlists) :
          ~IsMirrorName(playlists[k].Name) /\ playlists[k].tracks # <<>>

-----------------------------------------------------------------------------
ClonedPaths == {flacPathAt[collection[clones[j].from].Location] : j \in 1..Len(clones)}

-----------------------------------------------------------------------------
C10_State ==
    /\ \A j \in 1..Len(clones) : clones[j].from <= InputLen
    /\ \A i, j \in 1..Len(clones) : i # j => clones[i].from # clones[j].from
    /\ Len(collection) - InputLen <= InputLen
    /\ \A k \in (InputLen + 1)..Len(collection) : ~isFlacAt[collection[k].Location]
C10_Step ==
    (InLoop /\ ti > InputLen) =>
        /\ pc' = "tracks"
        /\ ti' = ti + 1
        /\ UNCHANGED <<playlists, collection, currId, flacToMp3, clones>>

\* C10: the loop over the collection ends although it reaches the tracks
\* appended during it: only input tracks are cloned, each at most once, so at
\* most as many tracks are appended as the input has; the appended tracks are
\* not of the source format, and the iteration at one of them changes nothing.
C10_PassTerminates ==
    /\ []C10_State
    /\ [][C10_Step]_vars
    /\ <>(pc \in {"convert", "done", "crashed"})
\* the loop has gone over two appended tracks and ended
C10_Witness == PassDone /\ Len(collection) = InputLen + 2 /\ ti = Len(collection) + 1

====
